---------------------------- MODULE Spec2Model ----------------------------
(***************************************************************************)
(* A model of QMLBridge's transpiler, src/src/TransformMD.py: the class    *)
(* TransformMD that turns a Qt Bridge metadata document (artboards and     *)
(* artboard-sets of nested nodes) into QML text.                           *)
(*                                                                         *)
(* Text is modelled as TLA+ strings, character by character: str.replace,  *)
(* the "in" test, re.sub and basename are computed on the characters, as   *)
(* Python computes them.                                                   *)
(*                                                                         *)
(* Three specifications share the variables:                               *)
(*   SpecAlloc  calls of generate_unique_id on one instance;               *)
(*   SpecNode   one call of parse_children on a fresh instance;            *)
(*   Spec       one run of transform_qml, loop iteration by iteration.     *)
(***************************************************************************)
EXTENDS Integers, Sequences, FiniteSets, TLC

VARIABLES
    addIDsChecked,          \* self.addIDsChecked
    anchorsChecked,         \* self.anchorsChecked
    uniqueIDsChecked,       \* self.uniqueIDsChecked
    addObjectNamesChecked,  \* self.addObjectNamesChecked
    library,                \* self.library: set of import strings
    idBucket,               \* self.idBucket: normalized base -> count
    fontBucket,             \* self.fontBucket: set of font families
    qml_code,               \* self.qml_code: text accumulated for the current document
    documentName,           \* self.documentName
    files,                  \* the output directory: file name -> content
    pc,                     \* position in the operation under way
    filename,               \* transform_qml's local "filename" (current artboard-set)
    node,                   \* SpecNode: the argument of parse_children
    out,                    \* SpecNode: the fragment parse_children returned
    calls,                  \* history: the generate_unique_id calls of parse_children, in order
    made,                   \* SpecAlloc history: base_id -> calls made with it
    last,                   \* SpecAlloc history: the last call, its argument and result
    saves,                  \* history: the save_qml calls, in order
    nTop,                   \* history: top-level artboards of the input
    nSets,                  \* history: artboard-sets of the input
    parsed                  \* history: the artboards transpiled in the run, in order

vars == <<addIDsChecked, anchorsChecked, uniqueIDsChecked, addObjectNamesChecked,
          library, idBucket, fontBucket, qml_code, documentName, files, pc,
          filename, node, out, calls, made, last, saves, nTop, nSets, parsed>>

options == <<addIDsChecked, anchorsChecked, uniqueIDsChecked, addObjectNamesChecked>>

-----------------------------------------------------------------------------
(* Bounds of the model *)

\* SpecAlloc: calls of generate_unique_id
MaxCalls == 12
\* SpecNode: entries of a vector-path node's qmlProperties
MaxProps == 3
\* SpecNode: entries of a node's anchors list
MaxAnchors == 2
\* SpecNode: children of a node of the generated trees
MaxKids == 2
\* Spec: artboards transpiled in one run
MaxArtboards == 2
\* Spec: artboard-sets of one run
MaxSets == 1

-----------------------------------------------------------------------------
(* Python's string operations, on characters *)

\* Op applied to the value of e, which is computed once
With(e, Op(_)) == CHOOSE v \in {Op(x) : x \in {e}} : TRUE

Min(S) == CHOOSE m \in S : \A k \in S : m <= k

Max(S) == CHOOSE m \in S : \A k \in S : m >= k

\* s[i:] for a 1-based i
From(s, i) == SubSeq(s, i, Len(s))

\* str.find, 1-based, 0 when sub does not occur in s (sub not empty)
Find(s, sub) ==
    LET hits == {i \in 1..(Len(s) - Len(sub) + 1) : SubSeq(s, i, i + Len(sub) - 1) = sub}
    IN  IF hits = {} THEN 0 ELSE Min(hits)

\* the "in" operator on strings
Contains(s, sub) == Find(s, sub) # 0

\* str.replace(old, new): every non-overlapping occurrence, left to right
RECURSIVE Replace(_, _, _)
Replace(s, old, new) ==
    With(Find(s, old), LAMBDA i :
        IF i = 0 THEN s
        ELSE SubSeq(s, 1, i - 1) \o new \o Replace(From(s, i + Len(old)), old, new))

Digit(d) == SubSeq("0123456789", d + 1, d + 1)

\* str() of an integer, as an f-string formats it
RECURSIVE IntToStr(_)
IntToStr(n) ==
    IF n < 0 THEN "-" \o IntToStr(-n)
    ELSE IF n < 10 THEN Digit(n)
    ELSE IntToStr(n \div 10) \o Digit(n % 10)

\* str() of a bool, as an f-string formats it
BoolToStr(b) == IF b THEN "True" ELSE "False"

\* str.lower() of one character
Lower(c) ==
    LET i == Find("ABCDEFGHIJKLMNOPQRSTUVWXYZ", c)
    IN  IF i = 0 THEN c ELSE SubSeq("abcdefghijklmnopqrstuvwxyz", i, i)

\* os.path.basename: what follows the last "/"
Basename(p) ==
    LET slashes == {i \in 1..Len(p) : SubSeq(p, i, i) = "/"}
    IN  IF slashes = {} THEN p ELSE From(p, Max(slashes) + 1)

\* dict.get(key, default)
Get(d, key, default) == IF key \in DOMAIN d THEN d[key] ELSE default

\* d[key] = value
Put(d, key, value) == [k \in DOMAIN d \cup {key} |-> IF k = key THEN value ELSE d[k]]

\* the empty dict
EmptyDict == [k \in {} |-> 0]

\* four spaces: the f-strings' {" "*4}
Ind == "    "

-----------------------------------------------------------------------------
(* The identifier allocator *)

\* generate_unique_id with the count returned one too high (a mutant)
generate_unique_id_offbyone(bucket, base_id) ==
    LET base  == Lower(SubSeq(base_id, 1, 1)) \o From(base_id, 2)
        count == Get(bucket, base, 0)
    IN  [id |-> base \o IntToStr(count + 1), idBucket |-> Put(bucket, base, count + 1)]

\* generate_unique_id: the identifier returned and the bucket afterwards.
\* base_id is not empty (base_id[0] raises on "").
generate_unique_id(bucket, base_id) ==
    LET base  == Lower(SubSeq(base_id, 1, 1)) \o From(base_id, 2)
        count == Get(bucket, base, 0)
    IN  [id |-> base \o IntToStr(count), idBucket |-> Put(bucket, base, count + 1)]

-----------------------------------------------------------------------------
(* The lookup tables of __init__ *)

\* self.anchors: the dict literal names "top" twice and the later entry stays
anchors ==
    [top    |-> "anchors.top: parent.top",
     left   |-> "anchors.left: parent.left",
     right  |-> "anchors.right: parent.right",
     bottom |-> "anchors.bottom: parent.bottom"]

\* self.alignment
alignment ==
    [top     |-> "Text.AlignTop",
     left    |-> "Text.AlignLeft",
     right   |-> "Text.AlignRight",
     bottom  |-> "Text.AlignBottom",
     justify |-> "Text.AlignJustify"]

\* an f-string's rendering of table.get(key): the entry, or "None" for None
GetStr(table, key) == IF key \in DOMAIN table THEN table[key] ELSE "None"

\* get_alignment_value, as the f-string renders its result
get_alignment_value(alignment_type, alignment_value) ==
    IF alignment_value # "center" THEN GetStr(alignment, alignment_value)
    ELSE IF alignment_type = "horizontalAlignment" THEN "Text.AlignHCenter"
    ELSE "Text.AlignVCenter"

-----------------------------------------------------------------------------
(* parse_children, step by step.  A node is a record x, y, layerIndex,     *)
(* width, height, name, metadata and, when it has any, children; metadata  *)
(* is a record holding the keys present.  st is the part of self that      *)
(* parse_children writes: idBucket, library, fontBucket, and the history   *)
(* of the generate_unique_id calls.                                        *)

\* lines 80-85: the generic container marker and the geometry
Header(children) ==
    "\nItem {"
    \o "\n" \o Ind \o "x: " \o IntToStr(children.x)
    \o "\n" \o Ind \o "y: " \o IntToStr(children.y)
    \o "\n" \o Ind \o "z: " \o IntToStr(children.layerIndex)
    \o "\n" \o Ind \o "width: " \o IntToStr(children.width)
    \o "\n" \o Ind \o "height: " \o IntToStr(children.height)

\* lines 87-91: the id line.  metadata['uuid'] raises when the key is absent;
\* every node of the model carries a uuid.
IdStep(code, metadata, st) ==
    IF addIDsChecked \/ (uniqueIDsChecked /\ addIDsChecked)
    THEN With(generate_unique_id(st.idBucket, Get(metadata, "qmlId", "default")), LAMBDA g :
            [code |-> code \o "\n" \o Ind \o "id: " \o g.id,
             st   |-> [st EXCEPT !.idBucket = g.idBucket,
                                 !.calls = Append(@, [base |-> Get(metadata, "qmlId", "default"),
                                                      id |-> g.id])]])
    ELSE IF uniqueIDsChecked
    THEN [code |-> code \o "\n" \o Ind \o "id: " \o metadata.uuid, st |-> st]
    ELSE [code |-> code, st |-> st]

\* lines 93-94: the objectName line
ObjectNameStep(code, children) ==
    IF addObjectNamesChecked
    THEN code \o "\n" \o Ind \o "objectName: \"" \o children.name \o "\""
    ELSE code

\* the loops of lines 100-101 and 116-117: every property, one per line
RECURSIVE AppendProps(_, _)
AppendProps(code, props) ==
    IF props = <<>> THEN code
    ELSE AppendProps(code \o "\n" \o Ind \o Head(props), Tail(props))

\* the loop of lines 106-108: the properties that do not contain "path"
RECURSIVE AppendNonPath(_, _)
AppendNonPath(code, props) ==
    IF props = <<>> THEN code
    ELSE AppendNonPath(
            IF ~Contains(Head(props), "path")
            THEN code \o "\n" \o Ind \o Ind \o Head(props)
            ELSE code,
            Tail(props))

\* lines 103-112: the vector-path node.  metadata['qmlProperties'][0] raises
\* when the list is absent or empty; the model's vector-path nodes have one.
ShapeStep(code, metadata) ==
    With(Replace(code, "Item", "Shape") \o "\n\n" \o Ind \o "ShapePath " \o "{", LAMBDA c1 :
        (IF "qmlProperties" \in DOMAIN metadata
         THEN AppendNonPath(c1, metadata.qmlProperties)
         ELSE c1)
        \o "\n\n" \o Ind \o Ind \o "PathSvg " \o "{"
        \o "\n" \o Ind \o Ind \o Ind \o metadata.qmlProperties[1]
        \o "\n" \o Ind \o Ind \o "}"
        \o "\n" \o Ind \o "}")

\* lines 96-117: the node's kind by typeName, and its qmlProperties
KindStep(code, metadata) ==
    IF "typeName" \in DOMAIN metadata
    THEN IF metadata.typeName # "SvgPathItem"
         THEN With(Replace(code, "Item", metadata.typeName), LAMBDA c1 :
                 IF "qmlProperties" \in DOMAIN metadata
                 THEN AppendProps(c1, metadata.qmlProperties)
                 ELSE c1)
         ELSE ShapeStep(code, metadata)
    ELSE IF "qmlProperties" \in DOMAIN metadata
         THEN AppendProps(code, metadata.qmlProperties)
         ELSE code

\* lines 119-120
VisibleStep(code, metadata) ==
    IF "qmlVisible" \in DOMAIN metadata
    THEN code \o "\n" \o Ind \o "visible: " \o BoolToStr(metadata.qmlVisible)
    ELSE code

\* lines 122-123
OpacityStep(code, metadata) ==
    IF "opacity" \in DOMAIN metadata
    THEN code \o "\n" \o Ind \o "opacity: " \o IntToStr(metadata.opacity)
    ELSE code

\* the loop of lines 127-128: one line per anchor name
RECURSIVE AppendAnchors(_, _)
AppendAnchors(code, names) ==
    IF names = <<>> THEN code
    ELSE AppendAnchors(code \o "\n" \o Ind \o GetStr(anchors, Head(names)), Tail(names))

\* lines 125-128
AnchorStep(code, metadata) ==
    IF anchorsChecked /\ "anchors" \in DOMAIN metadata
    THEN AppendAnchors(code, metadata.anchors)
    ELSE code

\* lines 130-132: the imports join self.library
ImportStep(lib, metadata) ==
    IF "extraImports" \in DOMAIN metadata
    THEN lib \cup {metadata.extraImports[i] : i \in DOMAIN metadata.extraImports}
    ELSE lib

\* lines 134-142: the text element
TextStep(code, metadata) ==
    IF "textDetails" \in DOMAIN metadata
    THEN LET text_details == metadata.textDetails
         IN  Replace(code, "Item", "Text")
             \o "\n" \o Ind \o "text: \"" \o text_details.contents \o "\""
             \o "\n" \o Ind \o "color: \"" \o text_details.textColor \o "\""
             \o "\n" \o Ind \o "font.family: \"" \o text_details.fontFamily \o "\""
             \o "\n" \o Ind \o "font.pixelSize: " \o IntToStr(text_details.fontSize)
             \o "\n" \o Ind \o "verticalAlignment: "
             \o get_alignment_value("verticalAlignment", text_details.verticalAlignment)
             \o "\n" \o Ind \o "horizontalAlignment: "
             \o get_alignment_value("horizontalAlignment", text_details.horizontalAlignment)
    ELSE code

\* line 143: the font family joins self.fontBucket
FontStep(fonts, metadata) ==
    IF "textDetails" \in DOMAIN metadata
    THEN fonts \cup {metadata.textDetails.fontFamily}
    ELSE fonts

\* lines 145-154
TransformStep(code, metadata) ==
    IF "transformation" \in DOMAIN metadata
    THEN LET transformation == metadata.transformation
         IN  code \o "\n" \o Ind \o "rotation: " \o IntToStr(transformation.rotation)
             \o (IF transformation.flippedHorizontally \/ transformation.flippedVertically
                 THEN (IF transformation.flippedHorizontally
                       THEN "\n" \o Ind \o "xScale: -1"
                       ELSE "\n" \o Ind \o "yScale: -1")
                      \o "\n" \o Ind \o "origin.x: parent.width/2"
                      \o "\n" \o Ind \o "origin.y: parent.height/2"
                 ELSE "")
    ELSE code

\* lines 156-159: the image element
AssetStep(code, metadata) ==
    IF "assetData" \in DOMAIN metadata
    THEN Replace(code, "Item", "Image")
         \o "\n" \o Ind \o "source: \"./Images/"
         \o Basename(metadata.assetData.assetPath) \o "\""
    ELSE code

\* the node's own lines, lines 78-159: the text before its children, and self
OwnPart(children, st) ==
    With(IdStep(Header(children), children.metadata, st), LAMBDA s1 :
        LET metadata == children.metadata
            c2 == ObjectNameStep(s1.code, children)
            c3 == KindStep(c2, metadata)
            c4 == VisibleStep(c3, metadata)
            c5 == OpacityStep(c4, metadata)
            c6 == AnchorStep(c5, metadata)
            c7 == TextStep(c6, metadata)
            c8 == TransformStep(c7, metadata)
            c9 == AssetStep(c8, metadata)
        IN  [code |-> c9,
             st   |-> [s1.st EXCEPT !.library = ImportStep(@, metadata),
                                    !.fontBucket = FontStep(@, metadata)]])

RECURSIVE parse_children(_, _)
RECURSIVE parse_kids(_, _, _)

\* parse_children closing the node before its children (a mutant)
parse_children_closefirst(children, st) ==
    With(OwnPart(children, st), LAMBDA own :
        IF "children" \in DOMAIN children
        THEN parse_kids(children.children, own.code \o "\n}", own.st)
        ELSE [code |-> own.code \o "\n}", st |-> own.st])

\* lines 77-166: parse_children, the fragment returned and self afterwards
parse_children(children, st) ==
    With(OwnPart(children, st), LAMBDA own :
        With(IF "children" \in DOMAIN children
             THEN parse_kids(children.children, own.code, own.st)
             ELSE own,
             LAMBDA kids : [code |-> kids.code \o "\n}", st |-> kids.st]))

\* the loop of lines 162-163: qml_code += self.parse_children(child)
parse_kids(kids, code, st) ==
    IF kids = <<>> THEN [code |-> code, st |-> st]
    ELSE With(parse_children(Head(kids), st), LAMBDA r :
            parse_kids(Tail(kids), code \o r.code, r.st))

-----------------------------------------------------------------------------
(* save_qml and save_data *)

\* re.sub(r'ENUM\((.*?)\)', r'\1', s): each "ENUM(" with a ")" after it on the
\* same line is cut down to what stands between them, left to right
RECURSIVE EnumSub(_)
EnumSub(s) ==
    With(Find(s, "ENUM("), LAMBDA i :
        IF i = 0 THEN s
        ELSE With(From(s, i + 5), LAMBDA rest :
             With(<<Find(rest, ")"), Find(rest, "\n")>>, LAMBDA jk :
                IF jk[1] # 0 /\ (jk[2] = 0 \/ jk[2] > jk[1])
                THEN SubSeq(s, 1, i - 1) \o SubSeq(rest, 1, jk[1] - 1)
                     \o EnumSub(From(rest, jk[1] + 1))
                ELSE SubSeq(s, 1, i + 4) \o EnumSub(rest))))

\* the orders in which "for lib in library" may enumerate a set
Orders(S) == {o \in [1..Cardinality(S) -> S] : \A i, j \in DOMAIN o : i # j => o[i] # o[j]}

\* lines 56-58: libs for one enumeration order
RECURSIVE Libs(_)
Libs(order) == IF order = <<>> THEN "" ELSE Head(order) \o "\n" \o Libs(Tail(order))

\* save_qml leaving the imports out (a mutant)
save_qml_nolibs(code, order) == EnumSub(Replace(code, "QtQuick.", ""))

\* lines 56-62: the text save_qml hands to save_data
save_qml(code, order) == EnumSub(Libs(order) \o Replace(code, "QtQuick.", ""))

\* save_data writing every document under the top-level document's name (a mutant)
save_data_docname(fs, text, file_name) == Put(fs, documentName \o ".qml", text)

\* lines 50-52: the file written; savePath and self.filename are the same
\* directory for every document of a run
save_data(fs, text, file_name) == Put(fs, file_name \o ".qml", text)

-----------------------------------------------------------------------------
(* The inputs of the model *)

Bools == {TRUE, FALSE}

\* a node without children
Leaf(x, name, metadata) ==
    [x |-> x, y |-> 2, layerIndex |-> 3, width |-> 100, height |-> 50,
     name |-> name, metadata |-> metadata]

\* a node with children
Branch(x, name, metadata, kids) ==
    [x |-> x, y |-> 2, layerIndex |-> 3, width |-> 100, height |-> 50,
     name |-> name, metadata |-> metadata, children |-> kids]

\* the union of two records (metadata holding the keys of both)
Merge(r1, r2) == [k \in DOMAIN r1 \cup DOMAIN r2 |-> IF k \in DOMAIN r1 THEN r1[k] ELSE r2[k]]

NoKeys == EmptyDict

MdUuid == [uuid |-> "u7"]

MdQmlIds == {NoKeys, [qmlId |-> "a"], [qmlId |-> "MenuItem"]}

PathProp == "path: 'M0 0'"

StrokeProp == "strokeColor: 'red'"

FillProp == "fillColor: 'blue'"

ItemProp == "delegate: Item {}"

\* typeName with qmlProperties; a vector-path node always lists properties
MdKinds ==
    {Merge(t, p) : t \in {NoKeys, [typeName |-> "Rectangle"]},
                   p \in {NoKeys, [qmlProperties |-> <<ItemProp>>],
                          [qmlProperties |-> <<StrokeProp, FillProp>>]}}
    \cup {[typeName |-> "SvgPathItem", qmlProperties |-> q] :
            q \in {<<PathProp>>, <<PathProp, ItemProp>>}}

TextDetails ==
    [contents |-> "Hi", textColor |-> "#fff", fontFamily |-> "Roboto", fontSize |-> 12,
     verticalAlignment |-> "center", horizontalAlignment |-> "left"]

MdTexts == {NoKeys, [textDetails |-> TextDetails]}

MdAssets == {NoKeys, [assetData |-> [assetPath |-> "assets/img/logo.png"]]}

MdExtras ==
    {NoKeys,
     [qmlVisible |-> TRUE, opacity |-> 1, anchors |-> <<"left">>,
      extraImports |-> <<"import QtQuick.Shapes">>,
      transformation |-> [rotation |-> 90, flippedHorizontally |-> TRUE,
                          flippedVertically |-> TRUE]]}

\* nodes of every kind
KindNodes ==
    {Leaf(1, n, Merge(MdUuid, Merge(q, Merge(k, Merge(t, Merge(a, e)))))) :
        n \in {"Box", "ListItem"}, q \in MdQmlIds, k \in MdKinds,
        t \in MdTexts, a \in MdAssets, e \in MdExtras}

\* the sequences over S of lengths lo..hi
SeqsOf(S, lo, hi) == UNION {[1..n -> S] : n \in lo..hi}

\* vector-path nodes, their properties in every order
PathNodes ==
    {Leaf(1, "Curve", [uuid |-> "u7", typeName |-> "SvgPathItem", qmlProperties |-> q]) :
        q \in SeqsOf({PathProp, StrokeProp, FillProp}, 1, MaxProps)}

\* nodes with anchors, "center" being no key of the anchor table
AnchorNodes ==
    {Leaf(1, "Box", [uuid |-> "u7", anchors |-> a]) :
        a \in SeqsOf({"top", "left", "center"}, 0, MaxAnchors)}

\* the metadata the nodes of a tree share
MdTrees ==
    {[uuid |-> "u7", qmlId |-> "a"],
     [uuid |-> "u7", typeName |-> "Rectangle"],
     [uuid |-> "u7", textDetails |-> TextDetails]}

\* trees of three levels: the child i of the node x is the node 10x+i
TreeNodes ==
    {Branch(1, "Root", m,
            [i \in 1..Len(shape) |->
                IF shape[i] = 0 THEN Leaf(10 + i, "Kid", m)
                ELSE Branch(10 + i, "Kid", m,
                            [j \in 1..shape[i] |-> Leaf(10 * (10 + i) + j, "Grandkid", m)])]) :
        shape \in SeqsOf(0..MaxKids, 1, MaxKids), m \in MdTrees}

SampleNodes == KindNodes \cup PathNodes \cup AnchorNodes \cup TreeNodes

-----------------------------------------------------------------------------
(* The state after __init__ *)

\* lines 6-30, but for the options
InitSelf ==
    /\ library = {}
    /\ idBucket = EmptyDict
    /\ fontBucket = {}
    /\ qml_code = ""
    /\ documentName = ""
    /\ filename = ""
    /\ files = EmptyDict
    /\ out = ""
    /\ calls = <<>>
    /\ made = EmptyDict
    /\ last = <<>>
    /\ saves = <<>>
    /\ nTop = 0
    /\ nSets = 0
    /\ parsed = <<>>

\* lines 26-29: the options the caller passes
InitOptions ==
    /\ addIDsChecked \in Bools
    /\ anchorsChecked \in Bools
    /\ uniqueIDsChecked \in Bools
    /\ addObjectNamesChecked \in Bools

\* the part of self parse_children writes
Self == [idBucket |-> idBucket, library |-> library, fontBucket |-> fontBucket, calls |-> calls]

-----------------------------------------------------------------------------
(* SpecAlloc: calls of generate_unique_id on one instance *)

AllocBases == {"a", "A", "a1", "Btn"}

InitAlloc ==
    /\ InitSelf
    /\ addIDsChecked = TRUE
    /\ anchorsChecked = FALSE
    /\ uniqueIDsChecked = FALSE
    /\ addObjectNamesChecked = FALSE
    /\ node = <<>>
    /\ pc = "alloc"

\* how many calls the history counts
RECURSIVE SumOver(_, _)
SumOver(f, S) ==
    IF S = {} THEN 0
    ELSE LET b == CHOOSE b \in S : TRUE IN f[b] + SumOver(f, S \ {b})

\* one call of generate_unique_id(base_id)
Allocate(base_id) ==
    /\ pc = "alloc"
    /\ SumOver(made, DOMAIN made) < MaxCalls
    /\ \E g \in {generate_unique_id(idBucket, base_id)} :
           /\ idBucket' = g.idBucket
           /\ last' = [base |-> base_id, id |-> g.id]
    /\ made' = Put(made, base_id, Get(made, base_id, 0) + 1)
    /\ UNCHANGED <<options, library, fontBucket, qml_code, documentName, files, pc,
                   filename, node, out, calls, saves, nTop, nSets, parsed>>

NextAlloc == \E base_id \in AllocBases : Allocate(base_id)

SpecAlloc == InitAlloc /\ [][NextAlloc]_vars

-----------------------------------------------------------------------------
(* SpecNode: one call of parse_children on a fresh instance *)

InitNode ==
    /\ InitSelf
    /\ InitOptions
    /\ node \in SampleNodes
    /\ pc = "node"

\* out = self.parse_children(node)
ParseNode ==
    /\ pc = "node"
    /\ \E r \in {parse_children(node, Self)} :
           /\ out' = r.code
           /\ idBucket' = r.st.idBucket
           /\ library' = r.st.library
           /\ fontBucket' = r.st.fontBucket
           /\ calls' = r.st.calls
    /\ pc' = "parsed"
    /\ UNCHANGED <<options, qml_code, documentName, files, filename, node, made, last,
                   saves, nTop, nSets, parsed>>

NextNode == ParseNode

SpecNode == InitNode /\ [][NextNode]_vars

-----------------------------------------------------------------------------
(* Spec: one run of transform_qml.  The input document is read as the run  *)
(* goes: each iteration of a loop takes the next artboard or artboard-set, *)
(* and a loop ends where its list does.                                    *)

MdA == [uuid |-> "u7", qmlId |-> "a"]

\* an artboard of eleven nodes, each with the qmlId "a"
WideNode == Branch(1, "Board", MdA, [i \in 1..10 |-> Leaf(10 + i, "Cell", MdA)])

ButtonNode ==
    Leaf(2, "Button",
         [uuid |-> "u8", qmlId |-> "a1", typeName |-> "QtQuick.Controls.Button",
          qmlProperties |-> <<"display: ENUM(AbstractButton.TextOnly)">>,
          extraImports |-> <<"import QtQuick.Controls">>])

CurveNode ==
    Leaf(3, "Curve",
         [uuid |-> "u9", typeName |-> "SvgPathItem", qmlProperties |-> <<PathProp>>,
          extraImports |-> <<"import QtQuick.Shapes", "import QtQuick.Controls">>])

RunNodes == {WideNode, ButtonNode, CurveNode}

DocNames == {"Doc"}

SetNames == {"Doc", "Screens"}

\* The run draws the two id options; the anchors and object-name options,
\* which SpecNode draws in every combination, are on.
Init ==
    /\ InitSelf
    /\ addIDsChecked \in Bools
    /\ uniqueIDsChecked \in Bools
    /\ anchorsChecked = TRUE
    /\ addObjectNamesChecked = TRUE
    /\ node = <<>>
    /\ pc = "start"

\* lines 33-35: json_data is read
Start(name) ==
    /\ pc = "start"
    /\ documentName' = name
    /\ pc' = "top"
    /\ UNCHANGED <<options, library, idBucket, fontBucket, qml_code, files, filename,
                   node, out, calls, made, last, saves, nTop, nSets, parsed>>

\* self.qml_code += self.parse_children(artboard) + "\n"
Transpile(artboard) ==
    \E r \in {parse_children(artboard, Self)} :
        /\ qml_code' = qml_code \o r.code \o "\n"
        /\ idBucket' = r.st.idBucket
        /\ library' = r.st.library
        /\ fontBucket' = r.st.fontBucket
        /\ calls' = r.st.calls
        /\ parsed' = Append(parsed, artboard)

\* self.save_qml(self.qml_code, self.library, file_name)
Save(file_name) ==
    \E order \in Orders(library) :
        \E text \in {save_qml(qml_code, order)} :
            /\ files' = save_data(files, text, file_name)
            /\ saves' = Append(saves, [name |-> file_name, text |-> text,
                                       after |-> Len(parsed)])

\* lines 37-38: one iteration of the loop over the top-level artboards
ParseTop(artboard) ==
    /\ pc = "top"
    /\ Len(parsed) < MaxArtboards
    /\ Transpile(artboard)
    /\ nTop' = nTop + 1
    /\ UNCHANGED <<options, documentName, files, pc, filename, node, out, made, last,
                   saves, nSets>>

\* line 39: the top-level document is saved
SaveTop ==
    /\ pc = "top"
    /\ Save(documentName)
    /\ pc' = "sets"
    /\ UNCHANGED <<options, library, idBucket, fontBucket, qml_code, documentName,
                   filename, node, out, calls, made, last, nTop, nSets, parsed>>

\* lines 41-44: one iteration of the loop over the artboard-sets begins
BeginSet(name) ==
    /\ pc = "sets"
    /\ nSets < MaxSets
    /\ qml_code' = ""
    /\ filename' = name
    /\ nSets' = nSets + 1
    /\ pc' = "set"
    /\ UNCHANGED <<options, library, idBucket, fontBucket, documentName, files, node,
                   out, calls, made, last, saves, nTop, parsed>>

\* lines 45-46: one iteration of the loop over the set's artboards
ParseSet(artboard) ==
    /\ pc = "set"
    /\ Len(parsed) < MaxArtboards
    /\ Transpile(artboard)
    /\ UNCHANGED <<options, documentName, files, pc, filename, node, out, made, last,
                   saves, nTop, nSets>>

\* line 47: the set's document is saved
SaveSet ==
    /\ pc = "set"
    /\ Save(filename)
    /\ pc' = "sets"
    /\ UNCHANGED <<options, library, idBucket, fontBucket, qml_code, documentName,
                   filename, node, out, calls, made, last, nTop, nSets, parsed>>

\* line 41: the loop over the artboard-sets ends and transform_qml returns
Finish ==
    /\ pc = "sets"
    /\ pc' = "done"
    /\ UNCHANGED <<options, library, idBucket, fontBucket, qml_code, documentName, files,
                   filename, node, out, calls, made, last, saves, nTop, nSets, parsed>>

Next ==
    \/ \E name \in DocNames : Start(name)
    \/ \E artboard \in RunNodes : ParseTop(artboard)
    \/ SaveTop
    \/ \E name \in SetNames : BeginSet(name)
    \/ \E artboard \in RunNodes : ParseSet(artboard)
    \/ SaveSet
    \/ Finish

Spec == Init /\ [][Next]_vars

-----------------------------------------------------------------------------
(* Reading the emitted text back *)

\* the lines of a text: what stands between its line breaks
Split(s) ==
    With(SelectSeq([i \in 1..Len(s) |-> i], LAMBDA i : SubSeq(s, i, i) = "\n"), LAMBDA at :
        [k \in 1..(Len(at) + 1) |->
            SubSeq(s, IF k = 1 THEN 1 ELSE at[k - 1] + 1,
                      IF k = Len(at) + 1 THEN Len(s) ELSE at[k] - 1)])

StartsWith(s, prefix) == Len(s) >= Len(prefix) /\ SubSeq(s, 1, Len(prefix)) = prefix

\* a line at column 0: a node's opening marker or its closing marker
IsMarker(line) == line # "" /\ ~StartsWith(line, " ")

\* the indices of lines that satisfy Test, in order
Where(lines, Test(_)) == SelectSeq([i \in 1..Len(lines) |-> i], LAMBDA i : Test(lines[i]))

\* the kind a fragment opens with: its first line without the " {"
Marker(text) == With(Split(text)[2], LAMBDA line : SubSeq(line, 1, Len(line) - 2))

\* the lines of a fragment's root node between its opening marker and the next
\* marker (its first child's, or its own closing one)
OwnLines(text) ==
    With(Split(text), LAMBDA lines :
        SubSeq(lines, 3, Min({i \in 3..Len(lines) : IsMarker(lines[i])}) - 1))

\* the markers of a fragment in order: an opening marker as the x line under
\* it, a closing marker as "}"
Tokens(text) ==
    With(Split(text), LAMBDA lines :
        With(Where(lines, IsMarker), LAMBDA at :
            [k \in 1..Len(at) |-> IF lines[at[k]] = "}" THEN "}" ELSE lines[at[k] + 1]]))

RECURSIVE Flatten(_)
Flatten(seqs) == IF seqs = <<>> THEN <<>> ELSE Head(seqs) \o Flatten(Tail(seqs))

\* the markers a tree asks for: the node, its children's subtrees in list
\* order, then the node's closing marker
RECURSIVE TreeTokens(_)
TreeTokens(n) ==
    <<Ind \o "x: " \o ToString(n.x)>>
    \o (IF "children" \in DOMAIN n
        THEN Flatten([i \in 1..Len(n.children) |-> TreeTokens(n.children[i])])
        ELSE <<>>)
    \o <<"}">>

\* the nodes of a tree
RECURSIVE Size(_)
Size(n) ==
    IF "children" \in DOMAIN n
    THEN 1 + SumOver([i \in DOMAIN n.children |-> Size(n.children[i])], DOMAIN n.children)
    ELSE 1

\* the imports the nodes of a tree list
RECURSIVE ImportsOf(_)
ImportsOf(n) ==
    (IF "extraImports" \in DOMAIN n.metadata
     THEN {n.metadata.extraImports[i] : i \in DOMAIN n.metadata.extraImports}
     ELSE {})
    \cup (IF "children" \in DOMAIN n
          THEN UNION {ImportsOf(n.children[i]) : i \in DOMAIN n.children}
          ELSE {})

\* the import lines of a document, in order
ImportLines(text) ==
    SelectSeq(Split(text), LAMBDA line : StartsWith(line, "import "))

Range(f) == {f[i] : i \in DOMAIN f}

-----------------------------------------------------------------------------
(* C1 *)

\* the normalized form of the bases SpecAlloc calls with
NormOf(b) == CASE b = "A" -> "a" [] b = "Btn" -> "btn" [] OTHER -> b

\* the calls made so far with the normalized base of b
CallsLike(b) == SumOver(made, {c \in DOMAIN made : NormOf(c) = NormOf(b)})

\* the last call returned its normalized base followed by the number of
\* earlier calls with that normalized base
LastCallNumbered ==
    last # <<>> => last.id = NormOf(last.base) \o ToString(CallsLike(last.base) - 1)

\* C1: in every sequence of generate_unique_id calls on one instance, the Nth
\* call with a normalized base returns that base followed by the decimal N-1,
\* and a call leaves the counter of every other base as it was.
C1_NthCallReturnsBaseN ==
    [][/\ LastCallNumbered'
       /\ \A k \in DOMAIN idBucket' :
            k # NormOf(last'.base) => k \in DOMAIN idBucket /\ idBucket'[k] = idBucket[k]
       /\ \A k \in DOMAIN idBucket : k \in DOMAIN idBucket']_vars

\* the eleventh call with the base "a", made as "A", after calls with "a1"
C1_Witness ==
    /\ last = [base |-> "A", id |-> "a10"]
    /\ "a1" \in DOMAIN idBucket
    /\ "a" \in DOMAIN made

-----------------------------------------------------------------------------
(* C2 *)

\* C2: with "assign readable ids" on, no two nodes transpiled in one run
\* receive the same identifier.
C2_IdsCollisionFree ==
    addIDsChecked =>
        \A i, j \in DOMAIN calls : i # j => calls[i].id # calls[j].id

-----------------------------------------------------------------------------
(* C3 *)

\* C3: a node with textDetails and assetData and no typeName is emitted with
\* Image as its opening marker.
C3_AssetWinsOverText ==
    (/\ pc = "parsed"
     /\ {"textDetails", "assetData"} \subseteq DOMAIN node.metadata
     /\ "typeName" \notin DOMAIN node.metadata)
    => Marker(out) = "Image"

-----------------------------------------------------------------------------
(* C4 *)

\* the entries of a property list that do, or do not, contain "path"
PathEntries(props) == SelectSeq(props, LAMBDA q : Contains(q, "path"))

OtherEntries(props) == SelectSeq(props, LAMBDA q : ~Contains(q, "path"))

\* the lines from..to of a fragment without the blank ones and the indentation
Entries(lines, from, to, indent) ==
    LET kept == SelectSeq(SubSeq(lines, from, to), LAMBDA l : l # "")
    IN  [i \in 1..Len(kept) |-> From(kept[i], Len(indent) + 1)]

\* the entries of the ShapePath block, before its inner PathSvg block
ShapePathEntries(text) ==
    With(Split(text), LAMBDA lines :
        Entries(lines,
                Min({i \in 1..Len(lines) : lines[i] = Ind \o "ShapePath {"}) + 1,
                Min({i \in 1..Len(lines) : lines[i] = Ind \o Ind \o "PathSvg {"}) - 1,
                Ind \o Ind))

\* the entries of the PathSvg block
PathSvgEntries(text) ==
    With(Split(text), LAMBDA lines :
        Entries(lines,
                Min({i \in 1..Len(lines) : lines[i] = Ind \o Ind \o "PathSvg {"}) + 1,
                Min({i \in 1..Len(lines) : lines[i] = Ind \o Ind \o "}"}) - 1,
                Ind \o Ind \o Ind))

\* C4: for a vector-path node with exactly one property containing "path", at
\* any position, the ShapePath block holds the other properties in list order
\* and the PathSvg block holds exactly the path property.
C4_PathSvgHoldsPathEntry ==
    (/\ pc = "parsed"
     /\ "typeName" \in DOMAIN node.metadata
     /\ node.metadata.typeName = "SvgPathItem"
     /\ node \in PathNodes
     /\ Len(PathEntries(node.metadata.qmlProperties)) = 1)
    => /\ Marker(out) = "Shape"
       /\ ShapePathEntries(out) = OtherEntries(node.metadata.qmlProperties)
       /\ PathSvgEntries(out) = PathEntries(node.metadata.qmlProperties)

-----------------------------------------------------------------------------
(* C6 *)

\* the id lines among a fragment's root node's own lines
IdLines(text) == SelectSeq(OwnLines(text), LAMBDA l : StartsWith(l, Ind \o "id: "))

\* C6: with "assign readable ids" on, one id line holding the allocator's
\* result for qmlId (or "default"); with only "force-unique ids" on, one id
\* line holding uuid verbatim and the bucket unchanged; with both off, no id
\* line and the bucket unchanged.
C6_IdLineByOptions ==
    pc = "parsed" =>
        IF addIDsChecked
        THEN /\ calls[1].base = Get(node.metadata, "qmlId", "default")
             /\ IdLines(out) = <<Ind \o "id: " \o calls[1].id>>
        ELSE IF uniqueIDsChecked
        THEN /\ IdLines(out) = <<Ind \o "id: " \o node.metadata.uuid>>
             /\ idBucket = EmptyDict
        ELSE /\ IdLines(out) = <<>>
             /\ idBucket = EmptyDict

-----------------------------------------------------------------------------
(* C8 *)

\* the node without the anchors the anchor table lacks
KnownAnchorsOnly(n) ==
    [n EXCEPT !.metadata.anchors = SelectSeq(@, LAMBDA a : a \in DOMAIN anchors)]

\* self after __init__
FreshSelf == [idBucket |-> EmptyDict, library |-> {}, fontBucket |-> {}, calls |-> <<>>]

\* C8: with "apply anchors" on, an anchors entry that is no key of the anchor
\* table adds no line: the fragment is the one of the node without that entry.
C8_UnknownAnchorAddsNothing ==
    (pc = "parsed" /\ anchorsChecked /\ node \in AnchorNodes)
    => out = parse_children(KnownAnchorsOnly(node), FreshSelf).code

-----------------------------------------------------------------------------
(* C9 *)

\* the lines parse_children emits for a node before it settles the kind, and
\* the qmlProperties lines of a node without typeName
LinesBeforeKind(n) ==
    <<Ind \o "x: " \o ToString(n.x), Ind \o "y: " \o ToString(n.y),
      Ind \o "z: " \o ToString(n.layerIndex), Ind \o "width: " \o ToString(n.width),
      Ind \o "height: " \o ToString(n.height)>>
    \o (IF addIDsChecked THEN <<Ind \o "id: " \o calls[1].id>>
        ELSE IF uniqueIDsChecked THEN <<Ind \o "id: " \o n.metadata.uuid>>
        ELSE <<>>)
    \o (IF addObjectNamesChecked THEN <<Ind \o "objectName: \"" \o n.name \o "\"">> ELSE <<>>)
    \o (IF "typeName" \notin DOMAIN n.metadata /\ "qmlProperties" \in DOMAIN n.metadata
        THEN [i \in DOMAIN n.metadata.qmlProperties |-> Ind \o n.metadata.qmlProperties[i]]
        ELSE <<>>)

\* C9: replacing the container marker with the node's kind leaves the lines
\* emitted before the replacement as they were.
C9_ReplaceChangesOnlyMarker ==
    pc = "parsed" =>
        With(LinesBeforeKind(node), LAMBDA before :
            SubSeq(OwnLines(out), 1, Len(before)) = before)

-----------------------------------------------------------------------------
(* C10 *)

\* C10: the fragment of a tree holds the node's marker and own lines, then
\* its children's fragments, whole and in list order, then one closing marker:
\* the markers are those of the depth-first pre-order walk, and no line of a
\* node follows the closing marker of one of its children.
C10_DepthFirstFragments ==
    pc = "parsed" =>
        With(Split(out), LAMBDA lines :
            /\ Tokens(out) = TreeTokens(node)
            /\ lines[Len(lines)] = "}"
            /\ \A i \in 1..(Len(lines) - 1) : lines[i] = "}" => IsMarker(lines[i + 1]))

\* a tree of three levels, two children under the root, transpiled
C10_Witness ==
    /\ pc = "parsed"
    /\ "children" \in DOMAIN node
    /\ Len(node.children) = 2
    /\ "children" \in DOMAIN node.children[1]
    /\ Len(node.children[1].children) = 2
    /\ "children" \notin DOMAIN node.children[2]

-----------------------------------------------------------------------------
(* C5 *)

\* C5: every document written in a run carries every import listed by any
\* node of the run.
C5_AllDocsCarryRunImports ==
    pc = "done" =>
        \A d \in DOMAIN saves : \A a \in DOMAIN parsed :
            ImportsOf(parsed[a]) \subseteq Range(ImportLines(saves[d].text))

\* the imports listed by the artboards transpiled before the save
ImportsBefore(save) == UNION {ImportsOf(parsed[a]) : a \in 1..save.after}

\* C5, amended: a document carries exactly the imports listed by the nodes
\* transpiled before it is saved, each once.
C5_DocsCarryImportsSoFar ==
    \A d \in DOMAIN saves :
        With(ImportLines(saves[d].text), LAMBDA imports :
            /\ Range(imports) = ImportsBefore(saves[d])
            /\ Len(imports) = Cardinality(ImportsBefore(saves[d])))

\* a run whose second document carries an import its first lacks
C5_Witness ==
    /\ pc = "done"
    /\ Len(saves) = 2
    /\ Range(ImportLines(saves[1].text)) = {"import QtQuick.Controls"}
    /\ Range(ImportLines(saves[2].text)) = {"import QtQuick.Controls", "import QtQuick.Shapes"}

-----------------------------------------------------------------------------
(* C7 *)

\* C7: a run over A top-level artboards and S artboard-sets writes A + S
\* documents, each under its own name, none overwritten.
C7_OneDocPerArtboardAndSet ==
    pc = "done" =>
        /\ Len(saves) = nTop + nSets
        /\ \A i, j \in DOMAIN saves : i # j => saves[i].name # saves[j].name
        /\ Cardinality(DOMAIN files) = nTop + nSets

\* the opening markers of a document
Openers(text) ==
    Len(SelectSeq(Split(text),
                  LAMBDA l : IsMarker(l) /\ l # "}" /\ ~StartsWith(l, "import ")))

\* C7, amended: a run writes 1 + S documents, the first under the document's
\* name holding all top-level artboards; a file holds the last document
\* written under its name.
C7_OneDocForTopAndOnePerSet ==
    pc = "done" =>
        /\ Len(saves) = 1 + nSets
        /\ saves[1].name = documentName
        /\ saves[1].after = nTop
        /\ Openers(saves[1].text) = SumOver([a \in 1..nTop |-> Size(parsed[a])], 1..nTop)
        /\ DOMAIN files = {saves[i].name \o ".qml" : i \in DOMAIN saves}
        /\ \A i \in DOMAIN saves :
             files[saves[i].name \o ".qml"] =
                saves[Max({j \in DOMAIN saves : saves[j].name = saves[i].name})].text

\* a run over two top-level artboards and one artboard-set
C7_Witness ==
    /\ pc = "done"
    /\ nTop = 2
    /\ nSets = 1
    /\ Len(saves) = 2
    /\ DOMAIN files = {"Doc.qml", "Screens.qml"}

=============================================================================
